---------------------------- MODULE Spec2Model ----------------------------
(***************************************************************************)
(* Lyrics Live: the Electron main process (src/src/main.ts, the revision   *)
(* in src/unnamed/part_000 adds the close-app channel) and the renderer    *)
(* process (src/src/renderer.ts, the three-state revision).                *)
(*                                                                         *)
(* Text is a sequence of characters.  The Backend's stdout is a byte       *)
(* stream: the Supervisor receives it as Buffers cut at arbitrary byte     *)
(* offsets and decodes each Buffer on its own with data.toString().        *)
(* The renderer receives each forwarded line, JSON.parse()s it and runs    *)
(* the lyrics-update handler on the parsed value.                          *)
(*                                                                         *)
(* The page has its #lyrics-area and #debug-log elements, so the views'   *)
(* `if (!lyricsArea) return` guards never return early.  A status text is *)
(* a sequence of tokens.  The window is the one createWindow() made at    *)
(* 'ready'; once closed it is not created again (no 'activate' handler).  *)
(***************************************************************************)
EXTENDS Integers, Sequences, FiniteSets, TLC

\* ---------------------------------------------------------- the state
VARIABLES
    \* Backend and Supervisor (main process)
    emitted,         \* history: the text the Backend has written to stdout
    pipe,            \* the bytes written and not yet read by the Supervisor
    received,        \* history: the bytes of all data chunks so far
    buffer,          \* startPythonBackend's buffer
    mainWindow,      \* "window" or "null"
    forwarded,       \* history: every line sent as 'lyrics-update'
    channel,         \* 'lyrics-update' messages sent and not yet handled
    handled,         \* history: the data of every lyrics-update handled
    \* Display Surface Controller and application (main process)
    isInteractive,   \* the Mode Flag
    ignoreMouseEvents, \* the window's setting: TRUE is click-through
    visible,         \* mainWindow.isVisible()
    shortcuts,       \* the accelerators registered with globalShortcut
    pythonProcess,   \* the child: "running", "failed" (no spawn), "killed"
    platform,        \* process.platform
    appState,        \* "running", "quitting" (app.quit() called), "quit"
    closeApp,        \* the 'close-app' signal: "none", "sent", "received"
    allClosed,       \* a 'window-all-closed' event is due
    errorLogged,     \* the child's 'error' event was handled
    keys,            \* history: the hotkeys pressed
    modeTrail,       \* history: <<flag, setting>> at start and per toggle
    modeSent,        \* history: the flag of every mode-change sent
    modeChannel,     \* mode-change messages sent and not yet handled
    pageLoaded,      \* did-finish-load has fired
    \* Lyrics View (renderer process)
    currentLyrics,
    currentTrack,
    currentArtist,
    lastActiveIndex,
    uiState,
    logLines,
    lyricsArea,      \* the content of #lyrics-area
    bodyInteractive, \* document.body has the class 'interactive'
    modeIndicator,   \* the text shown by #mode-indicator, "" when hidden
    \* history of the handler's last run
    lastData,        \* the parsed message
    lastThrew,       \* an exception reached the catch
    lastRendered,    \* #lyrics-area was written
    lastChannel,     \* the channel of the message the View handled last
    lastKaraokeIndex, \* <<activeIndex>> of the latest renderKaraoke call, or <<>>
    appended         \* history: every entry addLog pushed (log specification)

mainVars == <<emitted, pipe, received, buffer, mainWindow, forwarded, channel, handled>>
viewVars == <<currentLyrics, currentTrack, currentArtist, lastActiveIndex,
              uiState, logLines, lyricsArea>>
appVars == <<isInteractive, ignoreMouseEvents, visible, shortcuts, pythonProcess,
             platform, appState, closeApp, allClosed, errorLogged, keys, modeTrail,
             modeSent, modeChannel, pageLoaded>>
bodyVars == <<bodyInteractive, modeIndicator>>
lastVars == <<lastData, lastThrew, lastRendered, lastChannel, lastKaraokeIndex>>
vars == <<mainVars, appVars, viewVars, bodyVars, lastVars, appended>>

\* ------------------------------------------------------------ records
\* Every record of the model is built by one of these constructors.

\* A line of a lyrics_load message: LyricLine {time, text}; hasText is
\* FALSE for an element with no text property.
Line(time, text, hasText) == [time |-> time, text |-> text, hasText |-> hasText]

\* A rendered line of the karaoke view: its text, its index in currentLyrics
\* and its CSS class.
Row(text, index, class) == [text |-> text, index |-> index, class |-> class]

\* One <span> of the status log.
LogSpan(text, highlight) == [text |-> text, highlight |-> highlight]

\* The content of #lyrics-area: which view it shows, the song header, and
\* the rendered lines.
LyricsArea(ui, header, rows) == [ui |-> ui, header |-> header, rows |-> rows]

\* What JSON.parse(data) gives the handler: kind is "not_json" (JSON.parse
\* throws), "null", "number", "lyrics_load" and "lrc_update" (parsed.type),
\* "status" (no such type, a truthy parsed.status) or "other".
Parsed(kind, hasLines, lines, track, artist, hasPosition, position, statusIsString, status) ==
    [kind |-> kind, hasLines |-> hasLines, lines |-> lines, track |-> track,
     artist |-> artist, hasPosition |-> hasPosition, position |-> position,
     statusIsString |-> statusIsString, status |-> status]

\* The renderer's state as one record.
View ==
    [currentLyrics |-> currentLyrics, currentTrack |-> currentTrack,
     currentArtist |-> currentArtist, lastActiveIndex |-> lastActiveIndex,
     uiState |-> uiState, logLines |-> logLines, lyricsArea |-> lyricsArea]

\* What one run of the lyrics-update handler yields: the new state, whether
\* an exception reached the catch, whether #lyrics-area was written, the
\* log entries pushed, and the argument of its renderKaraoke call, if it
\* made one (<<activeIndex>>, else <<>>).
OutcomeWith(view, threw, rendered, pushed, karaokeCall) ==
    [view |-> view, threw |-> threw, rendered |-> rendered, pushed |-> pushed,
     karaokeCall |-> karaokeCall]

\* A run that did not call renderKaraoke.
Outcome(view, threw, rendered, pushed) ==
    OutcomeWith(view, threw, rendered, pushed, <<>>)

\* The payload of a mode-change notification.
ModeChangeData(interactive) == [interactive |-> interactive]

\* What one run of the stdout data handler yields: the new buffer and the
\* lines to send.
StdoutResult(newBuffer, sends) == [newBuffer |-> newBuffer, sends |-> sends]

\* ------------------------------------------------------------ bounds
\* Characters the Backend writes in one run of the stream model.
MaxStream == 5
\* Lines of a lyrics_load message, every list of lines up to this length.
MaxShort == 2
\* Lines of the longest lyrics_load array, and the last playback position.
MaxLines == 7
\* Log entries pushed in one run of the log model.
MaxAppended == 5
\* Hotkey presses in one run of the application model.
MaxKeys == 3
\* Messages the Backend writes in one run of the application model.
MaxMessages == 1

\* ------------------------------------------------------ text and bytes
NL == "\n"
SP == " "
\* A JSON digit: the texts "1", "11", ... are JSON documents (numbers).
DIGIT == "1"
\* U+00E9, a character whose UTF-8 encoding is the two bytes C3 A9.
EACUTE == "U+00E9"
LEADBYTE == "C3"
CONTBYTE == "A9"
\* U+FFFD, what Buffer.toString() puts for bytes that are no complete character.
REPLACEMENT == "U+FFFD"

\* The characters the Backend writes to its stdout.
BackendChars == {DIGIT, SP, NL, EACUTE}

\* The Backend's stdout encoding (UTF-8) of a text.
RECURSIVE Utf8Encode(_)
Utf8Encode(text) ==
    IF text = <<>> THEN <<>>
    ELSE (IF Head(text) = EACUTE THEN <<LEADBYTE, CONTBYTE>> ELSE <<Head(text)>>)
         \o Utf8Encode(Tail(text))

\* Buffer.prototype.toString(): UTF-8 decoding of ONE chunk.  A lead byte
\* with no continuation byte after it in this chunk, and a continuation
\* byte with no lead byte before it in this chunk, each decode to U+FFFD.
RECURSIVE toString(_)
toString(data) ==
    IF data = <<>> THEN <<>>
    ELSE IF Head(data) = LEADBYTE
         THEN IF Len(data) >= 2 /\ data[2] = CONTBYTE
              THEN <<EACUTE>> \o toString(Tail(Tail(data)))
              ELSE <<REPLACEMENT>> \o toString(Tail(data))
    ELSE IF Head(data) = CONTBYTE
         THEN <<REPLACEMENT>> \o toString(Tail(data))
    ELSE <<Head(data)>> \o toString(Tail(data))

\* String.prototype.split('\n'): the fragments between newlines; always at
\* least one fragment, the last being what follows the last newline.
RECURSIVE split(_)
split(text) ==
    IF \A i \in 1..Len(text) : text[i] # NL THEN <<text>>
    ELSE LET k == CHOOSE i \in 1..Len(text) :
                     text[i] = NL /\ \A j \in 1..(i - 1) : text[j] # NL
         IN  <<SubSeq(text, 1, k - 1)>> \o split(SubSeq(text, k + 1, Len(text)))

IsWhitespace(c) == c = SP \/ c = NL

RECURSIVE trimStart(_)
trimStart(text) ==
    IF text # <<>> /\ IsWhitespace(Head(text)) THEN trimStart(Tail(text)) ELSE text

RECURSIVE trimEnd(_)
trimEnd(text) ==
    IF text # <<>> /\ IsWhitespace(text[Len(text)])
    THEN trimEnd(SubSeq(text, 1, Len(text) - 1))
    ELSE text

\* String.prototype.trim()
trim(text) == trimEnd(trimStart(text))

\* Array.prototype.pop() applied to the fragments: the array without its
\* last element (the element itself is Last).
Last(s) == s[Len(s)]
Front(s) == SubSeq(s, 1, Len(s) - 1)


\* ------------------------------------------------- renderer: constants
VISIBLE_LINES == 5
MAX_LOG_LINES == 3

Max(a, b) == IF a >= b THEN a ELSE b
Min(a, b) == IF a <= b THEN a ELSE b

\* ------------------------------------------- renderer: the status log
\* A status text is a sequence of tokens (words and the marker phrases the
\* renderer looks for); includes() and startsWith() are tests on tokens.
includes(message, needle) == \E i \in 1..Len(message) : message[i] = needle
startsWith(message, needle) == message # <<>> /\ message[1] = needle

\* addLog's "Clean up message": the decorative prefix, first match wins.
cleanMsg(message) ==
    IF startsWith(message, "Mic:") THEN <<"[mic]">> \o message
    ELSE IF includes(message, "Identifying") THEN <<"[search]">> \o message
    ELSE IF includes(message, "Identified") THEN <<"[check]">> \o message
    ELSE IF includes(message, "Lyrics found") THEN <<"[note]">> \o message
    ELSE IF includes(message, "Fetching") THEN <<"[wait]">> \o message
    ELSE message

\* The <span> pushed for one message.
logEntry(message, highlight) == LogSpan(cleanMsg(message), highlight)

\* Variant of addLog that never shifts the oldest entry out.
addLog_noShift(log, message, highlight) == Append(log, logEntry(message, highlight))

\* addLog(message, highlight): push, then shift once when over capacity.
addLog(log, message, highlight) ==
    LET pushed == Append(log, logEntry(message, highlight))
    IN  IF Len(pushed) > MAX_LOG_LINES THEN Tail(pushed) ELSE pushed

\* ------------------------------------------------ renderer: the views
\* A track or artist is a string, or a JSON value with no string form: an
\* object whose own toString and valueOf are not functions, for which a
\* template literal `${...}` throws a TypeError.
NoStringForm == "{toString:0,valueOf:0}"
templateThrows(value) == value = NoStringForm

\* renderKaraoke's song header interpolates track and artist.
renderKaraokeThrows(track, artist) == templateThrows(track) \/ templateThrows(artist)

\* showNoLyricsUI interpolates them only when track is truthy.
showNoLyricsUIThrows(track, artist) ==
    track # "" /\ (templateThrows(track) \/ templateThrows(artist))

showLoadingUI == LyricsArea("loading", <<>>, <<>>)

showNoLyricsUI(track, artist) ==
    LyricsArea("no-lyrics", IF track # "" THEN <<track, artist>> ELSE <<>>, <<>>)

\* Variant of visibleWindow without the two boundary adjustments: near an
\* end of the list the window is cut short.
visibleWindow_cut(n, activeIndex) ==
    LET halfWindow == VISIBLE_LINES \div 2
    IN  IF activeIndex < 0
        THEN <<0, Min(n - 1, VISIBLE_LINES - 1)>>
        ELSE <<Max(0, activeIndex - halfWindow), Min(n - 1, activeIndex + halfWindow)>>

\* renderKaraoke's visible window: <<startIdx, endIdx>>, 0-based, for a list
\* of n lines.
visibleWindow(n, activeIndex) ==
    LET halfWindow == VISIBLE_LINES \div 2
        startIdx0 == Max(0, activeIndex - halfWindow)
        endIdx0 == Min(n - 1, activeIndex + halfWindow)
        endIdx1 == IF activeIndex < halfWindow
                   THEN Min(n - 1, VISIBLE_LINES - 1) ELSE endIdx0
        startIdx1 == IF activeIndex > n - halfWindow - 1
                     THEN Max(0, n - VISIBLE_LINES) ELSE startIdx0
    IN  IF activeIndex < 0
        THEN <<0, Min(n - 1, VISIBLE_LINES - 1)>>
        ELSE <<startIdx1, endIdx1>>

\* The class of rendered line i.
lineClass(i, activeIndex) ==
    IF i = activeIndex THEN "line active"
    ELSE IF i < activeIndex THEN "line past"
    ELSE "line"

\* The for loop of renderKaraoke from index i to endIdx; an index with no
\* line is skipped.
RECURSIVE renderRows(_, _, _, _)
renderRows(lyrics, i, endIdx, activeIndex) ==
    IF i > endIdx THEN <<>>
    ELSE (IF i >= 0 /\ i < Len(lyrics)
          THEN <<Row(lyrics[i + 1].text, i, lineClass(i, activeIndex))>>
          ELSE <<>>)
         \o renderRows(lyrics, i + 1, endIdx, activeIndex)

renderKaraoke(lyrics, track, artist, activeIndex) ==
    LET w == visibleWindow(Len(lyrics), activeIndex)
    IN  LyricsArea("karaoke", <<track, artist>>,
                   renderRows(lyrics, w[1], w[2], activeIndex))

\* Variant of findActive whose comparison is strict: a line becomes active
\* only after its time.
RECURSIVE findActive_strict(_, _, _, _)
findActive_strict(lyrics, position, i, activeIndex) ==
    IF i >= Len(lyrics) THEN activeIndex
    ELSE IF position > lyrics[i + 1].time
         THEN findActive_strict(lyrics, position, i + 1, i)
         ELSE activeIndex

\* ------------------------------------------- renderer: the active line
\* The scan of updateKaraoke from index i with the index found so far: it
\* stops at the first line whose time is after position.
RECURSIVE findActive(_, _, _, _)
findActive(lyrics, position, i, activeIndex) ==
    IF i >= Len(lyrics) THEN activeIndex
    ELSE IF position >= lyrics[i + 1].time
         THEN findActive(lyrics, position, i + 1, i)
         ELSE activeIndex

\* A message without a position compares false against every time.
activeIndexAt(lyrics, hasPosition, position) ==
    IF hasPosition THEN findActive(lyrics, position, 0, -1) ELSE -1

\* ------------------------------------- renderer: the message handler

\* Variant of keepLine that tests the text without trimming it.
keepLine_untrimmed(l) == l.text # <<>>

\* Variant of the filter that collects the kept lines newest first.
RECURSIVE filterLines_reversed(_)
filterLines_reversed(lines) ==
    IF lines = <<>> THEN <<>>
    ELSE filterLines_reversed(Tail(lines))
         \o (IF trim(Head(lines).text) # <<>> THEN <<Head(lines)>> ELSE <<>>)

\* l => l.text.trim() kept by filter(): the lines whose trimmed text is not
\* empty, in order.
keepLine(l) == trim(l.text) # <<>>
filterLines(lines) == SelectSeq(lines, keepLine)

\* parsed.lines.filter(...) throws when lines is missing or a line has no
\* text to trim.
filterThrows(parsed) ==
    \/ ~parsed.hasLines
    \/ \E i \in 1..Len(parsed.lines) : ~parsed.lines[i].hasText

\* Variant of updateKaraoke that renders on every call.
updateKaraoke_always(v, hasPosition, position) ==
    LET activeIndex == activeIndexAt(v.currentLyrics, hasPosition, position)
    IN  OutcomeWith([v EXCEPT !.lastActiveIndex = activeIndex,
                              !.lyricsArea = renderKaraoke(v.currentLyrics, v.currentTrack,
                                                           v.currentArtist, activeIndex)],
                    FALSE, TRUE, <<>>, <<activeIndex>>)

\* updateKaraoke(position): lastActiveIndex is assigned before the render,
\* so a render that throws leaves it assigned.
updateKaraoke(v, hasPosition, position) ==
    LET activeIndex == activeIndexAt(v.currentLyrics, hasPosition, position)
        tracked == [v EXCEPT !.lastActiveIndex = activeIndex]
    IN  IF activeIndex = v.lastActiveIndex THEN Outcome(v, FALSE, FALSE, <<>>)
        ELSE IF renderKaraokeThrows(v.currentTrack, v.currentArtist)
             THEN OutcomeWith(tracked, TRUE, FALSE, <<>>, <<activeIndex>>)
        ELSE OutcomeWith([tracked EXCEPT
                             !.lyricsArea = renderKaraoke(v.currentLyrics, v.currentTrack,
                                                          v.currentArtist, activeIndex)],
                         FALSE, TRUE, <<>>, <<activeIndex>>)

\* Variant of the lyrics_load branch that chooses the view by the length of
\* the array received instead of the filtered list.
onLyricsLoad_rawLength(v, parsed) ==
    IF filterThrows(parsed) THEN Outcome(v, TRUE, FALSE, <<>>)
    ELSE
    LET lyrics == filterLines(parsed.lines)
        karaoke == Len(parsed.lines) > 0
    IN  OutcomeWith([v EXCEPT !.currentLyrics = lyrics,
                              !.currentTrack = parsed.track,
                              !.currentArtist = parsed.artist,
                              !.lastActiveIndex = -1,
                              !.uiState = IF karaoke THEN "karaoke" ELSE "no-lyrics",
                              !.lyricsArea =
                                  IF karaoke
                                  THEN renderKaraoke(lyrics, parsed.track, parsed.artist, -1)
                                  ELSE showNoLyricsUI(parsed.track, parsed.artist)],
                    FALSE, TRUE, <<>>, IF karaoke THEN <<-1>> ELSE <<>>)

\* Variant of the lyrics_load branch that does not reset lastActiveIndex.
onLyricsLoad_keepsIndex(v, parsed) ==
    IF filterThrows(parsed) THEN Outcome(v, TRUE, FALSE, <<>>)
    ELSE
    LET lyrics == filterLines(parsed.lines)
        loaded == [v EXCEPT !.currentLyrics = lyrics,
                            !.currentTrack = parsed.track,
                            !.currentArtist = parsed.artist]
    IN  IF Len(lyrics) > 0
        THEN LET karaoke == [loaded EXCEPT !.uiState = "karaoke"]
                 message == <<"Now playing:", parsed.track>>
             IN  IF renderKaraokeThrows(parsed.track, parsed.artist)
                 THEN OutcomeWith(karaoke, TRUE, FALSE, <<>>, <<-1>>)
                 ELSE OutcomeWith([karaoke EXCEPT
                                      !.lyricsArea = renderKaraoke(lyrics, parsed.track,
                                                                   parsed.artist, -1),
                                      !.logLines = addLog(v.logLines, message, TRUE)],
                                  FALSE, TRUE, <<logEntry(message, TRUE)>>, <<-1>>)
        ELSE LET noLyrics == [loaded EXCEPT !.uiState = "no-lyrics"]
                 message == <<"No synced lyrics", "for:", parsed.track>>
             IN  IF showNoLyricsUIThrows(parsed.track, parsed.artist)
                 THEN Outcome(noLyrics, TRUE, FALSE, <<>>)
                 ELSE Outcome([noLyrics EXCEPT
                                  !.lyricsArea = showNoLyricsUI(parsed.track, parsed.artist),
                                  !.logLines = addLog(v.logLines, message, FALSE)],
                              FALSE, TRUE, <<logEntry(message, FALSE)>>)

\* The lyrics_load branch.  The filter runs before the first assignment;
\* the renders run after the last.
onLyricsLoad(v, parsed) ==
    IF filterThrows(parsed) THEN Outcome(v, TRUE, FALSE, <<>>)
    ELSE
    LET lyrics == filterLines(parsed.lines)
        loaded == [v EXCEPT !.currentLyrics = lyrics,
                            !.currentTrack = parsed.track,
                            !.currentArtist = parsed.artist,
                            !.lastActiveIndex = -1]
    IN  IF Len(lyrics) > 0
        THEN LET karaoke == [loaded EXCEPT !.uiState = "karaoke"]
                 message == <<"Now playing:", parsed.track>>
             IN  IF renderKaraokeThrows(parsed.track, parsed.artist)
                 THEN OutcomeWith(karaoke, TRUE, FALSE, <<>>, <<-1>>)
                 ELSE OutcomeWith([karaoke EXCEPT
                                      !.lyricsArea = renderKaraoke(lyrics, parsed.track,
                                                                   parsed.artist, -1),
                                      !.logLines = addLog(v.logLines, message, TRUE)],
                                  FALSE, TRUE, <<logEntry(message, TRUE)>>, <<-1>>)
        ELSE LET noLyrics == [loaded EXCEPT !.uiState = "no-lyrics"]
                 message == <<"No synced lyrics", "for:", parsed.track>>
             IN  IF showNoLyricsUIThrows(parsed.track, parsed.artist)
                 THEN Outcome(noLyrics, TRUE, FALSE, <<>>)
                 ELSE Outcome([noLyrics EXCEPT
                                  !.lyricsArea = showNoLyricsUI(parsed.track, parsed.artist),
                                  !.logLines = addLog(v.logLines, message, FALSE)],
                              FALSE, TRUE, <<logEntry(message, FALSE)>>)

\* Variant of the lrc_update branch without the test of the UI state.
onLrcUpdate_anyState(v, parsed) == updateKaraoke(v, parsed.hasPosition, parsed.position)

\* The lrc_update branch.
onLrcUpdate(v, parsed) ==
    IF v.uiState = "karaoke"
    THEN updateKaraoke(v, parsed.hasPosition, parsed.position)
    ELSE Outcome(v, FALSE, FALSE, <<>>)

\* Variant of the status branch that goes back to the loading view on a
\* status other than "No synced lyrics".
onStatus_backToLoading(v, parsed) ==
    IF ~parsed.statusIsString THEN Outcome(v, TRUE, FALSE, <<>>)
    ELSE
    LET highlight == includes(parsed.status, "Identified")
                     \/ includes(parsed.status, "Lyrics found")
        logged == [v EXCEPT !.logLines = addLog(v.logLines, parsed.status, highlight)]
        pushed == <<logEntry(parsed.status, highlight)>>
    IN  IF includes(parsed.status, "No synced lyrics")
        THEN Outcome([logged EXCEPT
                         !.uiState = "no-lyrics",
                         !.lyricsArea = showNoLyricsUI(v.currentTrack, v.currentArtist)],
                     FALSE, TRUE, pushed)
        ELSE Outcome([logged EXCEPT !.uiState = "loading", !.lyricsArea = showLoadingUI],
                     FALSE, TRUE, pushed)

\* Variant of the status branch that shows the no-lyrics view only for a
\* status equal to the marker, not for one that contains it.
onStatus_exact(v, parsed) ==
    IF ~parsed.statusIsString THEN Outcome(v, TRUE, FALSE, <<>>)
    ELSE
    LET highlight == includes(parsed.status, "Identified")
                     \/ includes(parsed.status, "Lyrics found")
        logged == [v EXCEPT !.logLines = addLog(v.logLines, parsed.status, highlight)]
        pushed == <<logEntry(parsed.status, highlight)>>
    IN  IF parsed.status # <<"No synced lyrics">>
        THEN Outcome(logged, FALSE, FALSE, pushed)
        ELSE Outcome([logged EXCEPT
                         !.uiState = "no-lyrics",
                         !.lyricsArea = showNoLyricsUI(v.currentTrack, v.currentArtist)],
                     FALSE, TRUE, pushed)

\* The status branch: parsed.status is truthy.  A status that is no string
\* has no includes(): the arguments of addLog throw before it is called.
onStatus(v, parsed) ==
    IF ~parsed.statusIsString THEN Outcome(v, TRUE, FALSE, <<>>)
    ELSE
    LET highlight == includes(parsed.status, "Identified")
                     \/ includes(parsed.status, "Lyrics found")
        logged == [v EXCEPT !.logLines = addLog(v.logLines, parsed.status, highlight)]
        pushed == <<logEntry(parsed.status, highlight)>>
        noLyrics == [logged EXCEPT !.uiState = "no-lyrics"]
    IN  IF ~includes(parsed.status, "No synced lyrics")
        THEN Outcome(logged, FALSE, FALSE, pushed)
        ELSE IF showNoLyricsUIThrows(v.currentTrack, v.currentArtist)
             THEN Outcome(noLyrics, TRUE, FALSE, pushed)
        ELSE Outcome([noLyrics EXCEPT
                         !.lyricsArea = showNoLyricsUI(v.currentTrack, v.currentArtist)],
                     FALSE, TRUE, pushed)

\* ipcRenderer.on('lyrics-update'): the try block on the value JSON.parse
\* gives (or its exception), and the catch.
onLyricsUpdate(v, parsed) ==
    IF parsed.kind = "not_json" THEN Outcome(v, TRUE, FALSE, <<>>)
    ELSE IF parsed.kind = "null" THEN Outcome(v, TRUE, FALSE, <<>>)
    ELSE IF parsed.kind = "lyrics_load" THEN onLyricsLoad(v, parsed)
    ELSE IF parsed.kind = "lrc_update" THEN onLrcUpdate(v, parsed)
    ELSE IF parsed.kind = "status" THEN onStatus(v, parsed)
    ELSE Outcome(v, FALSE, FALSE, <<>>)

\* ------------------------------------------------- parsed messages

Plain(kind) == Parsed(kind, FALSE, <<>>, "", "", FALSE, 0, FALSE, <<>>)
LyricsLoadMsg(track, artist, lines) ==
    Parsed("lyrics_load", TRUE, lines, track, artist, FALSE, 0, FALSE, <<>>)
LyricsLoadNoLines(track, artist) ==
    Parsed("lyrics_load", FALSE, <<>>, track, artist, FALSE, 0, FALSE, <<>>)
LrcUpdateMsg(position) ==
    Parsed("lrc_update", FALSE, <<>>, "", "", TRUE, position, FALSE, <<>>)
LrcUpdateNoPosition == Parsed("lrc_update", FALSE, <<>>, "", "", FALSE, 0, FALSE, <<>>)
StatusMsg(status) == Parsed("status", FALSE, <<>>, "", "", FALSE, 0, TRUE, status)
StatusNotString == Parsed("status", FALSE, <<>>, "", "", FALSE, 0, FALSE, <<>>)

\* Two JSON objects the Backend writes, each taken as one unit of text: a
\* lyrics_load with one line, and a status that no synced lyrics exist.
LOAD_JSON == "{type:lyrics_load,track:T1,artist:A1,lines:[{time:2,text:la}]}"
STATUS_JSON == "{status:Error: No synced lyrics}"

\* JSON.parse of a forwarded line over the stream's characters: a run of
\* digits is a JSON number, every other text is no JSON document.
JSONparse(text) ==
    IF text # <<>> /\ \A i \in 1..Len(text) : text[i] = DIGIT
    THEN Plain("number")
    ELSE IF text = <<LOAD_JSON>>
    THEN LyricsLoadMsg("T1", "A1", <<Line(2, <<"la">>, TRUE)>>)
    ELSE IF text = <<STATUS_JSON>>
    THEN StatusMsg(<<"Error:", "No synced lyrics">>)
    ELSE Plain("not_json")

\* ------------------------------------------------------ initial state
\* The accelerators of the two global shortcuts.
TOGGLE_MODE == "CommandOrControl+Shift+L"
TOGGLE_VISIBLE == "CommandOrControl+Shift+H"

\* The state once the 'ready' handler has run createWindow() and
\* startPythonBackend() and the renderer's script has run: process is what
\* became of the spawn, os is process.platform.
Started(process, os) ==
    /\ isInteractive = TRUE
    /\ ignoreMouseEvents = FALSE
    /\ visible = TRUE
    /\ shortcuts = {TOGGLE_MODE, TOGGLE_VISIBLE}
    /\ pythonProcess = process
    /\ platform = os
    /\ appState = "running"
    /\ closeApp = "none"
    /\ allClosed = FALSE
    /\ errorLogged = FALSE
    /\ keys = <<>>
    /\ modeTrail = << <<TRUE, FALSE>> >>
    /\ modeSent = <<>>
    /\ modeChannel = <<>>
    /\ pageLoaded = FALSE
    /\ bodyInteractive = FALSE
    /\ modeIndicator = ""
    /\ lastChannel = "none"
    /\ emitted = <<>>
    /\ pipe = <<>>
    /\ received = <<>>
    /\ buffer = <<>>
    /\ mainWindow = "window"
    /\ forwarded = <<>>
    /\ channel = <<>>
    /\ handled = <<>>
    /\ currentLyrics = <<>>
    /\ currentTrack = ""
    /\ currentArtist = ""
    /\ lastActiveIndex = -1
    /\ uiState = "loading"
    /\ logLines = <<>>
    /\ lyricsArea = showLoadingUI
    /\ lastData = Plain("none")
    /\ lastThrew = FALSE
    /\ lastRendered = FALSE
    /\ lastKaraokeIndex = <<>>
    /\ appended = <<>>

\* The Backend was spawned.
Init == Started("running", "darwin")

\* Either outcome of the spawn, on either kind of platform.
InitApp == \E process \in {"running", "failed"}, os \in {"darwin", "linux"} : Started(process, os)

\* ------------------------------------------------ Supervisor actions
\* The Backend writes one character to its stdout.
BackendWrite(c) ==
    /\ Len(emitted) < MaxStream
    /\ emitted' = Append(emitted, c)
    /\ pipe' = pipe \o Utf8Encode(<<c>>)
    /\ UNCHANGED <<received, buffer, mainWindow, forwarded, channel, handled>>
    /\ UNCHANGED <<appVars, viewVars, bodyVars, lastVars, appended>>

\* The complete fragments of the stdout handler: each trimmed, the empty
\* ones dropped.
RECURSIVE trimmedLines(_)
trimmedLines(lines) ==
    IF lines = <<>> THEN <<>>
    ELSE (IF trim(Head(lines)) # <<>> THEN <<trim(Head(lines))>> ELSE <<>>)
         \o trimmedLines(Tail(lines))

\* pythonProcess.stdout.on('data'): the new buffer and the lines to send.
onStdoutData(buf, data) ==
    LET lines == split(buf \o toString(data))
    IN  StdoutResult(Last(lines), trimmedLines(Front(lines)))

\* Variant of sendAll that puts the new lines ahead of the queued ones.
sendAll_ahead(window, queue, sends) ==
    IF window = "window" THEN sends \o queue ELSE queue

\* mainWindow?.webContents.send('lyrics-update', trimmed) for each line.
sendAll(window, queue, sends) ==
    IF window = "window" THEN queue \o sends ELSE queue

\* A data event: the chunk is the first k bytes of the pipe, for any k.
StdoutData ==
    /\ \E k \in 1..Len(pipe) :
         LET data == SubSeq(pipe, 1, k)
             r == onStdoutData(buffer, data)
         IN  /\ pipe' = SubSeq(pipe, k + 1, Len(pipe))
             /\ received' = received \o data
             /\ buffer' = r.newBuffer
             /\ forwarded' = sendAll(mainWindow, forwarded, r.sends)
             /\ channel' = sendAll(mainWindow, channel, r.sends)
    /\ UNCHANGED <<emitted, mainWindow, handled>>
    /\ UNCHANGED <<appVars, viewVars, bodyVars, lastVars, appended>>

\* ------------------------------------------------------ View actions
\* One run of the lyrics-update handler on a parsed message.
LyricsUpdate(parsed) ==
    \E o \in {onLyricsUpdate(View, parsed)} :
        /\ currentLyrics' = o.view.currentLyrics
        /\ currentTrack' = o.view.currentTrack
        /\ currentArtist' = o.view.currentArtist
        /\ lastActiveIndex' = o.view.lastActiveIndex
        /\ uiState' = o.view.uiState
        /\ logLines' = o.view.logLines
        /\ lyricsArea' = o.view.lyricsArea
        /\ lastData' = parsed
        /\ lastThrew' = o.threw
        /\ lastRendered' = o.rendered
        /\ lastChannel' = "lyrics-update"
        /\ lastKaraokeIndex' = IF o.karaokeCall = <<>> THEN lastKaraokeIndex
                                ELSE o.karaokeCall

\* The renderer handles the oldest message in the channel.
Deliver ==
    /\ channel # <<>>
    /\ LyricsUpdate(JSONparse(Head(channel)))
    /\ channel' = Tail(channel)
    /\ handled' = Append(handled, Head(channel))
    /\ UNCHANGED <<emitted, pipe, received, buffer, mainWindow, forwarded, appended>>
    /\ UNCHANGED <<appVars, bodyVars>>

NextStream ==
    \/ \E c \in BackendChars : BackendWrite(c)
    \/ StdoutData
    \/ Deliver

\* The Backend's stream through the Supervisor to the View.
SpecStream == Init /\ [][NextStream]_vars

\* ------------------------------------------------- the View's inputs
\* The songs of the lyrics_load messages: <<track, artist>>.
Songs == {<<"T1", "A1">>, <<"T2", "A2">>}
FirstSong == {<<"T1", "A1">>}

LyricLine(time, text) == Line(time, text, TRUE)
\* A line of the array with no text property.
LineNoText(time) == Line(time, <<>>, FALSE)

\* Short arrays: a whitespace-only line and a sung line per time; every
\* array of at most MaxShort of them, sorted by time or not.
ShortTimes == {1, 2}
ShortLines == {LyricLine(1, <<SP>>)} \cup {LyricLine(t, <<"la">>) : t \in ShortTimes}
ShortLists == UNION {[1..n -> ShortLines] : n \in 0..MaxShort}

\* Long arrays: n lines, line i at time 2 i with a text of its own, so that
\* a position can fall on a line's time or strictly between two lines.
LongText(i) == [k \in 1..i |-> "la"]
LongList(n) == [i \in 1..n |-> LyricLine(2 * i, LongText(i))]
LongLists == {LongList(n) : n \in 3..MaxLines}

\* The arrays the Backend produces: the time is non-decreasing along the
\* lines of a song (the Backend's code is not part of the sources read; this
\* is its contract).
nonDecreasing(lines) ==
    \A i \in 1..Len(lines) : i > 1 => lines[i - 1].time <= lines[i].time
BackendLists == {lines \in ShortLists \cup LongLists : nonDecreasing(lines)}

\* A few arrays for the specifications in which only their emptiness after
\* filtering matters.
SampleLists ==
    {<<>>, <<LyricLine(1, <<SP>>)>>, <<LyricLine(1, <<"la">>)>>,
     <<LyricLine(1, <<"la">>), LyricLine(2, <<"la">>)>>}

\* An array the filter throws on: a line without text after a good line.
BrokenLists == {<<LyricLine(1, <<"la">>), LineNoText(2)>>}

\* Playback positions: around the short arrays' times, and along a long array.
ShortPositions == 0..2
Positions == 0..(2 * MaxLines + 1)

\* Status texts: one that forces no-lyrics and ones that only log.
NoSyncedStatus == <<"Error:", "No synced lyrics">>
Statuses == {NoSyncedStatus, <<"Identified", "T1">>}
LogStatuses == {NoSyncedStatus, <<"Identified", "T1">>, <<"Mic:", "on">>}

\* ------------------------------------- the View's message actions
\* The handler runs in the renderer: nothing of the main process changes.
ViewOnly == UNCHANGED <<mainVars, appVars, bodyVars, appended>>

LyricsLoad(songs, lists) ==
    \E song \in songs, lines \in lists :
        LyricsUpdate(LyricsLoadMsg(song[1], song[2], lines)) /\ ViewOnly

\* A lyrics_load whose track has no string form, with an array that keeps a
\* line and with one that keeps none.
LyricsLoadNoStringForm ==
    \E lines \in {<<LyricLine(1, <<"la">>)>>, <<LyricLine(1, <<SP>>)>>} :
        LyricsUpdate(LyricsLoadMsg(NoStringForm, "A2", lines)) /\ ViewOnly

\* A lyrics_load with no lines array, or with a line that has no text.
BrokenLoads ==
    {LyricsLoadNoLines(song[1], song[2]) : song \in Songs}
    \cup {LyricsLoadMsg(song[1], song[2], lines) : song \in Songs, lines \in BrokenLists}

LyricsLoadBroken == \E broken \in BrokenLoads : LyricsUpdate(broken) /\ ViewOnly

LrcUpdate(positions) ==
    \E position \in positions : LyricsUpdate(LrcUpdateMsg(position)) /\ ViewOnly

LrcUpdateWithoutPosition == LyricsUpdate(LrcUpdateNoPosition) /\ ViewOnly

Status(statuses) ==
    \E status \in statuses : LyricsUpdate(StatusMsg(status)) /\ ViewOnly

StatusBroken == LyricsUpdate(StatusNotString) /\ ViewOnly

\* Text that is no JSON, and JSON values that are no message.
NoMessage ==
    \E kind \in {"not_json", "null", "other"} : LyricsUpdate(Plain(kind)) /\ ViewOnly

\* The same handler, with every pushed log entry recorded in the history.
Logged(parsed) ==
    /\ Len(appended) < MaxAppended
    /\ LyricsUpdate(parsed)
    /\ appended' = appended \o onLyricsUpdate(View, parsed).pushed
    /\ UNCHANGED <<mainVars, appVars, bodyVars>>

LoggedStatus == \E status \in LogStatuses : Logged(StatusMsg(status)) /\ TRUE

LoggedLoad ==
    \E song \in FirstSong, lines \in SampleLists :
        Logged(LyricsLoadMsg(song[1], song[2], lines)) /\ TRUE

LoggedNoMessage ==
    \E parsed \in {Plain("not_json"), StatusNotString} : Logged(parsed) /\ TRUE

\* ------------------------------------ the Display Surface Controller
\* The Supervisor's variables other than the window reference.
streamVars == <<emitted, pipe, received, buffer, forwarded, channel, handled>>

\* Variant of the flip that locks, whatever the flag was.
toggledFlag_lock(flag) == FALSE

\* CommandOrControl+Shift+L: isInteractive = !isInteractive
toggledFlag(flag) == ~flag

\* Variant with the two settings exchanged.
ignoreMouseEventsFor_same(flag) == IF flag THEN TRUE ELSE FALSE

\* setIgnoreMouseEvents(false) when interactive, (true, {forward: true})
\* when locked.
ignoreMouseEventsFor(flag) == IF flag THEN FALSE ELSE TRUE

\* The payload sent by the branch taken for the new flag.
modeChangeFor(flag) == IF flag THEN ModeChangeData(TRUE) ELSE ModeChangeData(FALSE)

\* Variant that hides the window, shown or not.
visibleAfter_hide(isVisible) == FALSE

\* CommandOrControl+Shift+H: hide() when isVisible(), show() otherwise.
visibleAfter(isVisible) == IF isVisible THEN FALSE ELSE TRUE

\* The handler of CommandOrControl+Shift+L; without a window it returns.
ToggleMode ==
    /\ appState # "quit"
    /\ TOGGLE_MODE \in shortcuts
    /\ Len(keys) < MaxKeys
    /\ keys' = Append(keys, TOGGLE_MODE)
    /\ IF mainWindow # "window"
       THEN UNCHANGED <<isInteractive, ignoreMouseEvents, modeTrail, modeSent, modeChannel>>
       ELSE LET flag == toggledFlag(isInteractive)
                data == modeChangeFor(flag)
            IN  /\ isInteractive' = flag
                /\ ignoreMouseEvents' = ignoreMouseEventsFor(flag)
                /\ modeTrail' = Append(modeTrail, <<flag, ignoreMouseEventsFor(flag)>>)
                /\ modeSent' = Append(modeSent, data.interactive)
                /\ modeChannel' = sendAll(mainWindow, modeChannel, <<data>>)
    /\ UNCHANGED <<visible, shortcuts, pythonProcess, platform, appState, closeApp,
                   allClosed, errorLogged, pageLoaded>>
    /\ UNCHANGED <<mainVars, viewVars, bodyVars, lastVars, appended>>

\* The handler of CommandOrControl+Shift+H; without a window it returns.
ToggleVisible ==
    /\ appState # "quit"
    /\ TOGGLE_VISIBLE \in shortcuts
    /\ Len(keys) < MaxKeys
    /\ keys' = Append(keys, TOGGLE_VISIBLE)
    /\ visible' = IF mainWindow # "window" THEN visible ELSE visibleAfter(visible)
    /\ UNCHANGED <<isInteractive, ignoreMouseEvents, shortcuts, pythonProcess, platform,
                   appState, closeApp, allClosed, errorLogged, modeTrail, modeSent,
                   modeChannel, pageLoaded>>
    /\ UNCHANGED <<mainVars, viewVars, bodyVars, lastVars, appended>>

\* webContents 'did-finish-load': the initial mode notification.
DidFinishLoad ==
    /\ appState # "quit"
    /\ mainWindow = "window"
    /\ ~pageLoaded
    /\ pageLoaded' = TRUE
    /\ modeSent' = Append(modeSent, TRUE)
    /\ modeChannel' = sendAll(mainWindow, modeChannel, <<ModeChangeData(TRUE)>>)
    /\ UNCHANGED <<isInteractive, ignoreMouseEvents, visible, shortcuts, pythonProcess,
                   platform, appState, closeApp, allClosed, errorLogged, keys, modeTrail>>
    /\ UNCHANGED <<mainVars, viewVars, bodyVars, lastVars, appended>>

\* ipcRenderer.on('mode-change'): the class on the body and the indicator.
bodyClassAfter(data) == IF data.interactive THEN TRUE ELSE FALSE
indicatorAfter(data) == IF data.interactive THEN "Resize Mode" ELSE "Locked"

\* One run of the mode-change handler on a payload.
ModeChangeHandled(data) ==
    /\ bodyInteractive' = bodyClassAfter(data)
    /\ modeIndicator' = indicatorAfter(data)
    /\ lastChannel' = "mode-change"
    /\ UNCHANGED <<viewVars, lastData, lastThrew, lastRendered, lastKaraokeIndex, appended>>

\* The renderer handles the oldest mode-change in its channel.
ModeChange ==
    /\ appState # "quit"
    /\ mainWindow = "window"
    /\ modeChannel # <<>>
    /\ ModeChangeHandled(Head(modeChannel))
    /\ modeChannel' = Tail(modeChannel)
    /\ UNCHANGED <<isInteractive, ignoreMouseEvents, visible, shortcuts, pythonProcess,
                   platform, appState, closeApp, allClosed, errorLogged, keys, modeTrail,
                   modeSent, pageLoaded>>
    /\ UNCHANGED mainVars

\* showModeIndicator's setTimeout: the indicator is hidden.
HideIndicator ==
    /\ appState # "quit"
    /\ mainWindow = "window"
    /\ modeIndicator # ""
    /\ modeIndicator' = ""
    /\ UNCHANGED <<mainVars, appVars, viewVars, bodyInteractive, lastVars, appended>>

\* ------------------------------------------- the application lifecycle
\* Variant of app.quit() that does nothing.
quit_ignored(state) == state

\* app.quit(): a running application starts to quit.
quit(state) == IF state = "running" THEN "quitting" ELSE state

\* pythonProcess.kill(): only a child that runs is ended.
kill(process) == IF process = "running" THEN "killed" ELSE process

\* mainWindow.on('closed'): mainWindow = null
closed(window) == "null"

\* Variant of the 'window-all-closed' handler without the platform test.
onWindowAllClosed_anywhere(os, state) == IF state = "running" THEN "quitting" ELSE state

\* app.on('window-all-closed'): quit unless on darwin.
onWindowAllClosed(os, state) == IF os # "darwin" THEN quit(state) ELSE state

\* The close button: ipcRenderer.send('close-app').
CloseButton ==
    /\ appState = "running"
    /\ mainWindow = "window"
    /\ closeApp = "none"
    /\ closeApp' = "sent"
    /\ UNCHANGED <<isInteractive, ignoreMouseEvents, visible, shortcuts, pythonProcess,
                   platform, appState, allClosed, errorLogged, keys, modeTrail, modeSent,
                   modeChannel, pageLoaded>>
    /\ UNCHANGED <<mainVars, viewVars, bodyVars, lastVars, appended>>

\* ipcMain.on('close-app'): app.quit()
CloseApp ==
    /\ appState # "quit"
    /\ closeApp = "sent"
    /\ closeApp' = "received"
    /\ appState' = quit(appState)
    /\ UNCHANGED <<isInteractive, ignoreMouseEvents, visible, shortcuts, pythonProcess,
                   platform, allClosed, errorLogged, keys, modeTrail, modeSent,
                   modeChannel, pageLoaded>>
    /\ UNCHANGED <<mainVars, viewVars, bodyVars, lastVars, appended>>

\* The platform asks the application to quit (menu, dock, session end).
QuitRequested ==
    /\ appState = "running"
    /\ appState' = quit(appState)
    /\ UNCHANGED <<isInteractive, ignoreMouseEvents, visible, shortcuts, pythonProcess,
                   platform, closeApp, allClosed, errorLogged, keys, modeTrail, modeSent,
                   modeChannel, pageLoaded>>
    /\ UNCHANGED <<mainVars, viewVars, bodyVars, lastVars, appended>>

\* The window closes and its 'closed' handler runs.  The page goes with the
\* window, and with the page the messages it has not handled.
WindowCloses ==
    /\ mainWindow = "window"
    /\ mainWindow' = closed(mainWindow)
    /\ channel' = <<>>
    /\ modeChannel' = <<>>
    /\ UNCHANGED <<emitted, pipe, received, buffer, forwarded, handled>>
    /\ UNCHANGED <<isInteractive, ignoreMouseEvents, visible, shortcuts, pythonProcess,
                   platform, appState, closeApp, errorLogged, keys, modeTrail, modeSent,
                   pageLoaded>>
    /\ UNCHANGED <<viewVars, bodyVars, lastVars, appended>>

\* The user closes the window of a running application: 'window-all-closed'
\* is due.
UserClosesWindow ==
    /\ appState = "running"
    /\ WindowCloses
    /\ allClosed' = TRUE

\* app.quit() closes the window: 'window-all-closed' is not emitted.
QuitClosesWindow ==
    /\ appState = "quitting"
    /\ WindowCloses
    /\ UNCHANGED allClosed

\* app.on('window-all-closed')
WindowAllClosed ==
    /\ appState # "quit"
    /\ allClosed
    /\ allClosed' = FALSE
    /\ appState' = onWindowAllClosed(platform, appState)
    /\ UNCHANGED <<isInteractive, ignoreMouseEvents, visible, shortcuts, pythonProcess,
                   platform, closeApp, errorLogged, keys, modeTrail, modeSent,
                   modeChannel, pageLoaded>>
    /\ UNCHANGED <<mainVars, viewVars, bodyVars, lastVars, appended>>

\* app.on('will-quit'), emitted once every window of a quitting application
\* is closed: globalShortcut.unregisterAll(), pythonProcess.kill().
WillQuit ==
    /\ appState = "quitting"
    /\ mainWindow = "null"
    /\ appState' = "quit"
    /\ shortcuts' = {}
    /\ pythonProcess' = kill(pythonProcess)
    /\ UNCHANGED <<isInteractive, ignoreMouseEvents, visible, platform, closeApp,
                   allClosed, errorLogged, keys, modeTrail, modeSent, modeChannel,
                   pageLoaded>>
    /\ UNCHANGED <<mainVars, viewVars, bodyVars, lastVars, appended>>

\* Variant of the 'error' handler that also quits the application.
SpawnError_quits ==
    /\ appState # "quit"
    /\ pythonProcess = "failed"
    /\ ~errorLogged
    /\ errorLogged' = TRUE
    /\ appState' = "quitting"
    /\ UNCHANGED <<isInteractive, ignoreMouseEvents, visible, shortcuts, pythonProcess,
                   platform, closeApp, allClosed, keys, modeTrail, modeSent,
                   modeChannel, pageLoaded>>
    /\ UNCHANGED <<mainVars, viewVars, bodyVars, lastVars, appended>>

\* pythonProcess.on('error'): console.error(...) and nothing else.
SpawnError ==
    /\ appState # "quit"
    /\ pythonProcess = "failed"
    /\ ~errorLogged
    /\ errorLogged' = TRUE
    /\ UNCHANGED <<isInteractive, ignoreMouseEvents, visible, shortcuts, pythonProcess,
                   platform, appState, closeApp, allClosed, keys, modeTrail, modeSent,
                   modeChannel, pageLoaded>>
    /\ UNCHANGED <<mainVars, viewVars, bodyVars, lastVars, appended>>

\* The Backend, while it runs, writes one message and its newline.
BackendWriteMessage(text) ==
    /\ pythonProcess = "running"
    /\ Len(emitted) < 2 * MaxMessages
    /\ emitted' = emitted \o <<text, NL>>
    /\ pipe' = pipe \o Utf8Encode(<<text, NL>>)
    /\ UNCHANGED <<received, buffer, mainWindow, forwarded, channel, handled>>
    /\ UNCHANGED <<appVars, viewVars, bodyVars, lastVars, appended>>

\* The application: hotkeys, page load, mode changes, the close button, the
\* window and the quit, around a Backend that writes whole messages.
NextApp ==
    \/ ToggleMode
    \/ ToggleVisible
    \/ DidFinishLoad
    \/ ModeChange
    \/ HideIndicator
    \/ CloseButton
    \/ CloseApp
    \/ QuitRequested
    \/ UserClosesWindow
    \/ QuitClosesWindow
    \/ WindowAllClosed
    \/ WillQuit
    \/ SpawnError
    \/ \E text \in {LOAD_JSON, STATUS_JSON} : BackendWriteMessage(text)
    \/ StdoutData
    \/ Deliver

SpecApp == InitApp /\ [][NextApp]_vars

\* The way to the quit alone, with the hotkeys.
NextQuit ==
    \/ ToggleMode
    \/ ToggleVisible
    \/ CloseButton
    \/ CloseApp
    \/ UserClosesWindow
    \/ QuitClosesWindow
    \/ WindowAllClosed
    \/ WillQuit
    \/ SpawnError

\* The main process runs every handler whose event is due: the 'close-app'
\* signal is received, a quitting application closes its window, and
\* 'will-quit' is emitted once the windows are closed.
FairSpecQuit ==
    /\ InitApp
    /\ [][NextQuit]_vars
    /\ WF_vars(CloseApp)
    /\ WF_vars(QuitClosesWindow)
    /\ WF_vars(WillQuit)

\* The View under loads, playback, status messages and mode changes.
ModeChangeReceived ==
    \E flag \in BOOLEAN :
        ModeChangeHandled(ModeChangeData(flag)) /\ UNCHANGED <<mainVars, appVars>>

NextUi ==
    \/ LyricsLoad(FirstSong, SampleLists)
    \/ LrcUpdate(ShortPositions)
    \/ Status(Statuses)
    \/ ModeChangeReceived
    \/ HideIndicator

SpecUi == Init /\ [][NextUi]_vars

\* ------------------------------------------------- specifications
\* The Lyrics View as a state machine, under every sequence of messages:
\* both songs, every kind of message, the failing ones included.
Next ==
    \/ LyricsLoad(Songs, SampleLists)
    \/ LyricsLoadBroken
    \/ LyricsLoadNoStringForm
    \/ LrcUpdate(ShortPositions)
    \/ LrcUpdateWithoutPosition
    \/ Status(Statuses)
    \/ StatusBroken
    \/ NoMessage

Spec == Init /\ [][Next]_vars

\* Song loads with every short array of lines.
NextLoad ==
    \/ LyricsLoad(Songs, ShortLists)
    \/ LrcUpdate(ShortPositions)

SpecLoad == Init /\ [][NextLoad]_vars

\* The karaoke view of one song: every short and long array, every position.
NextKaraoke ==
    \/ LyricsLoad(FirstSong, ShortLists \cup LongLists)
    \/ LrcUpdate(Positions)
    \/ LrcUpdateWithoutPosition
    \/ Status({NoSyncedStatus})

SpecKaraoke == Init /\ [][NextKaraoke]_vars

\* The View fed by the Backend: loads as the Backend produces them.
NextBackend ==
    \/ LyricsLoad(FirstSong, BackendLists)
    \/ LrcUpdate(ShortPositions)
    \/ Status({NoSyncedStatus})

SpecBackend == Init /\ [][NextBackend]_vars

\* The status log with its history.
NextLog ==
    \/ LoggedStatus
    \/ LoggedLoad
    \/ LoggedNoMessage

SpecLog == Init /\ [][NextLog]_vars

\* ------------------------------------------------ the Backend's exit
\* The Backend process ends.  What it wrote and the Supervisor has not read
\* yet is still in the pipe and arrives as 'data' events afterwards.
BackendExit ==
    /\ pythonProcess = "running"
    /\ pythonProcess' = "exited"
    /\ UNCHANGED <<isInteractive, ignoreMouseEvents, visible, shortcuts, platform,
                   appState, closeApp, allClosed, errorLogged, keys, modeTrail,
                   modeSent, modeChannel, pageLoaded>>
    /\ UNCHANGED <<mainVars, viewVars, bodyVars, lastVars, appended>>

\* The Backend, while it runs, writes one character.
BackendWriteRunning(c) ==
    /\ pythonProcess = "running"
    /\ BackendWrite(c)

\* A 'close' handler that forwarded what is left in the buffer.
OnClose_flush ==
    /\ pythonProcess = "exited"
    /\ pipe = <<>>
    /\ pythonProcess' = "closed"
    /\ buffer' = <<>>
    /\ forwarded' = sendAll(mainWindow, forwarded, trimmedLines(<<buffer>>))
    /\ channel' = sendAll(mainWindow, channel, trimmedLines(<<buffer>>))
    /\ UNCHANGED <<emitted, pipe, received, mainWindow, handled>>
    /\ UNCHANGED <<isInteractive, ignoreMouseEvents, visible, shortcuts, platform,
                   appState, closeApp, allClosed, errorLogged, keys, modeTrail,
                   modeSent, modeChannel, pageLoaded>>
    /\ UNCHANGED <<viewVars, bodyVars, lastVars, appended>>

\* pythonProcess.on('close'): emitted once the process has ended and its
\* stdout has been read to the end; console.log(...) and nothing else.
OnClose ==
    /\ pythonProcess = "exited"
    /\ pipe = <<>>
    /\ pythonProcess' = "closed"
    /\ UNCHANGED <<isInteractive, ignoreMouseEvents, visible, shortcuts, platform,
                   appState, closeApp, allClosed, errorLogged, keys, modeTrail,
                   modeSent, modeChannel, pageLoaded>>
    /\ UNCHANGED <<mainVars, viewVars, bodyVars, lastVars, appended>>

NextExit ==
    \/ \E c \in BackendChars : BackendWriteRunning(c)
    \/ StdoutData
    \/ BackendExit
    \/ OnClose

\* The Backend's stream through the Supervisor, up to and after its exit.
SpecExit == Init /\ [][NextExit]_vars

\* ------------------------------------------ what the stream should give
\* The positions of the newlines of a text, and its k-th newline.
NewlinePositions(text) == {i \in 1..Len(text) : text[i] = NL}
NthNewline(text, k) ==
    CHOOSE i \in NewlinePositions(text) :
        Cardinality({j \in NewlinePositions(text) : j <= i}) = k

\* The k-th newline-terminated line of a text.
NthLine(text, k) ==
    LET from == IF k = 1 THEN 1 ELSE NthNewline(text, k - 1) + 1
    IN  SubSeq(text, from, NthNewline(text, k) - 1)

\* A text without its leading and trailing whitespace.
Stripped(text) ==
    LET solid == {i \in 1..Len(text) : ~IsWhitespace(text[i])}
    IN  IF solid = {} THEN <<>>
        ELSE SubSeq(text, CHOOSE i \in solid : \A j \in solid : i <= j,
                          CHOOSE i \in solid : \A j \in solid : i >= j)

NotEmpty(text) == text # <<>>

\* The newline-terminated lines of a text, stripped, the blank ones dropped.
ExpectedLines(text) ==
    SelectSeq([k \in 1..Cardinality(NewlinePositions(text)) |->
                  Stripped(NthLine(text, k))], NotEmpty)

\* The text of the bytes received so far, decoded as one stream.
ReceivedText == toString(received)

\* A line as it reads once every two-byte character in it has been cut
\* between its bytes: the order and the extent of a line survive the cut.
RECURSIVE CutThrough(_)
CutThrough(text) ==
    IF text = <<>> THEN <<>>
    ELSE (IF Head(text) = EACUTE THEN <<REPLACEMENT, REPLACEMENT>> ELSE <<Head(text)>>)
         \o CutThrough(Tail(text))

\* C2 (as claimed): at every moment the lines forwarded are exactly the
\* newline-terminated lines of the stream received so far, each trimmed,
\* blank lines dropped, however the stream was cut into chunks.
C2_ForwardsExactlyTheLines == forwarded = ExpectedLines(ReceivedText)

\* C3: the View handles the forwarded messages in the order the Backend
\* emitted their lines: what it has handled, followed by what is still in
\* the channel, is the sequence of the stream's lines, one message per
\* line, none moved, repeated or joined.
C3_OrderKept ==
    LET all == handled \o channel
        lines == ExpectedLines(ReceivedText)
    IN  /\ Len(all) = Len(lines)
        /\ \A i \in 1..Len(all) : CutThrough(all[i]) = CutThrough(lines[i])

\* C3 witness: two different lines have been handled, in their order.
C3_Witness == Len(handled) = 2 /\ Len(handled[1]) < Len(handled[2])


\* ----------------------------------------------- the View: expectations
\* Stated from the lists and the rendered view, without the renderer's scan,
\* filter or window arithmetic.

SortedByTime(lyrics) ==
    \A i, j \in 1..Len(lyrics) : i < j => lyrics[i].time <= lyrics[j].time

\* The greatest 0-based index whose time is at or before p, or -1.
GreatestAtOrBefore(lyrics, p) ==
    LET started == {i \in 0..(Len(lyrics) - 1) : lyrics[i + 1].time <= p}
    IN  IF started = {} THEN -1
        ELSE CHOOSE i \in started : \A j \in started : j <= i

\* The index of the row shown as active, or -1 when no row is.
RenderedActive(area) ==
    LET active == {k \in 1..Len(area.rows) : area.rows[k].class = "line active"}
    IN  IF active = {} THEN -1 ELSE area.rows[CHOOSE k \in active : TRUE].index

\* C1: on a list sorted by time, after an lrc_update with position p handled
\* in karaoke mode the active index is the greatest i with time(i) <= p, or
\* -1 when p is before every line, and the row shown active is that one.
C1_ActiveIndexIsGreatest ==
    (/\ lastData.kind = "lrc_update"
     /\ lastData.hasPosition
     /\ uiState = "karaoke"
     /\ SortedByTime(currentLyrics))
    => /\ lastActiveIndex = GreatestAtOrBefore(currentLyrics, lastData.position)
       /\ RenderedActive(lyricsArea) = lastActiveIndex

\* A position strictly between the second and third line of a sorted list.
C1_Witness ==
    /\ lastData.kind = "lrc_update"
    /\ lastData.hasPosition
    /\ uiState = "karaoke"
    /\ SortedByTime(currentLyrics)
    /\ Len(currentLyrics) >= 3
    /\ lastActiveIndex = 1
    /\ currentLyrics[2].time < lastData.position
    /\ lastData.position < currentLyrics[3].time

\* C4: whenever the UI state is karaoke the stored list is not empty.
C4_KaraokeHasLyrics == uiState = "karaoke" => Len(currentLyrics) > 0

\* Karaoke reached by a load, and kept through a message that failed.
C4_Witness ==
    /\ uiState = "karaoke"
    /\ lastThrew
    /\ Len(currentLyrics) > 0
    /\ Len(logLines) = MAX_LOG_LINES

\* The lines whose text has a character that is not whitespace, in order.
RECURSIVE NonBlankLines(_)
NonBlankLines(lines) ==
    IF lines = <<>> THEN <<>>
    ELSE (IF \E c \in 1..Len(Head(lines).text) : ~IsWhitespace(Head(lines).text[c])
          THEN <<Head(lines)>> ELSE <<>>)
         \o NonBlankLines(Tail(lines))

\* C5: after a well-formed lyrics_load the track, the artist and the list
\* are those of the message (the list being its non-blank lines in order),
\* the tracked index is -1, and the UI state is karaoke with a highlighted
\* newest log entry when the list is not empty, no-lyrics with a plain one
\* when it is.
C5_LoadReplacesTogether ==
    (lastData.kind = "lyrics_load" /\ ~lastThrew)
    => /\ currentTrack = lastData.track
       /\ currentArtist = lastData.artist
       /\ currentLyrics = NonBlankLines(lastData.lines)
       /\ lastActiveIndex = -1
       /\ logLines # <<>>
       /\ IF currentLyrics # <<>>
          THEN /\ uiState = "karaoke"
               /\ lyricsArea.ui = "karaoke"
               /\ Last(logLines).highlight
          ELSE /\ uiState = "no-lyrics"
               /\ lyricsArea.ui = "no-lyrics"
               /\ ~Last(logLines).highlight

\* A second song whose lines are all blank: nothing is kept of them.
C5_Witness ==
    /\ lastData.kind = "lyrics_load"
    /\ ~lastThrew
    /\ lastData.track = "T2"
    /\ Len(lastData.lines) = 2
    /\ currentLyrics = <<>>
    /\ uiState = "no-lyrics"
    /\ Len(logLines) = MAX_LOG_LINES

\* C6: an lrc_update handled in karaoke mode renders exactly when the index
\* its scan computes (on any list, sorted or not) differs from the one shown
\* by the previous render, and one that does not render changes nothing of
\* the View; so repeating a position renders once at most.
C6_RenderOnlyOnChange ==
    [][ (lastData'.kind = "lrc_update" /\ uiState = "karaoke")
        => LET computed == activeIndexAt(currentLyrics, lastData'.hasPosition,
                                         lastData'.position)
           IN  /\ lastRendered' <=> computed # RenderedActive(lyricsArea)
               /\ ~lastRendered' => UNCHANGED viewVars
               /\ ~lastThrew' ]_vars

\* A repeated position after a render of the third line: no render.
C6_Witness ==
    /\ lastData.kind = "lrc_update"
    /\ uiState = "karaoke"
    /\ ~lastRendered
    /\ lastActiveIndex = 2
    /\ RenderedActive(lyricsArea) = 2

\* C7: a message whose handling fails leaves the whole View state as it was.
C7_FailureChangesNothing == [][lastThrew' => UNCHANGED viewVars]_vars

\* C8: a status that contains "No synced lyrics" puts the UI in no-lyrics
\* from any state and leaves the list, the track and the artist as they were.
C8_NoSyncedForcesNoLyrics ==
    [][ (/\ lastData'.kind = "status"
         /\ lastData'.statusIsString
         /\ \E i \in 1..Len(lastData'.status) : lastData'.status[i] = "No synced lyrics")
        => /\ uiState' = "no-lyrics"
           /\ lyricsArea'.ui = "no-lyrics" \/ lastThrew'
           /\ UNCHANGED <<currentLyrics, currentTrack, currentArtist>> ]_vars

\* The status arrived in karaoke with a line active: the list is kept.
C8_Witness ==
    /\ lastData.kind = "status"
    /\ lastData.status = NoSyncedStatus
    /\ uiState = "no-lyrics"
    /\ Len(currentLyrics) = 2
    /\ lastActiveIndex = 1
    /\ currentTrack = "T2"

\* The last k elements of a sequence.
LastOf(s, k) == SubSeq(s, Len(s) - k + 1, Len(s))

\* C9: the log ring buffer never holds more than 3 entries and is the last
\* min(3, k) of the k entries appended so far, oldest first.
C9_LogIsLastThree ==
    /\ Len(logLines) <= 3
    /\ logLines = LastOf(appended, IF Len(appended) < 3 THEN Len(appended) ELSE 3)

\* Four entries appended, the first of them evicted.
C9_Witness ==
    /\ Len(appended) = 4
    /\ Len(logLines) = 3
    /\ logLines[1] = appended[2]
    /\ appended[1] # appended[2]

\* C10: the karaoke view of a list of n lines with active index a shows a
\* run of consecutive lines of length min(5, n); for a >= 0 the run contains
\* line a and is a-2..a+2 when that range lies inside the list; a shown line
\* has class active exactly when its index is a and past exactly when it is
\* below a.
C10_WindowAroundActive ==
    uiState = "karaoke"
    => LET n == Len(currentLyrics)
           a == lastActiveIndex
           rows == lyricsArea.rows
       IN  /\ lyricsArea.ui = "karaoke"
           /\ Len(rows) = (IF n < 5 THEN n ELSE 5)
           /\ \A k \in 1..Len(rows) :
                /\ rows[k].index \in 0..(n - 1)
                /\ k > 1 => rows[k].index = rows[k - 1].index + 1
                /\ rows[k].text = currentLyrics[rows[k].index + 1].text
                /\ rows[k].class = "line active" <=> rows[k].index = a
                /\ rows[k].class = "line past" <=> rows[k].index < a
                /\ rows[k].class \in {"line", "line active", "line past"}
           /\ a >= 0 => \E k \in 1..Len(rows) : rows[k].index = a
           /\ (a - 2 >= 0 /\ a + 2 <= n - 1)
              => (rows[1].index = a - 2 /\ rows[Len(rows)].index = a + 2)

\* The last line of a seven-line list is active: the run is 2..6.
C10_Witness ==
    /\ uiState = "karaoke"
    /\ Len(currentLyrics) = 7
    /\ lastActiveIndex = 6
    /\ Len(lyricsArea.rows) = 5
    /\ lyricsArea.rows[1].index = 2
    /\ lyricsArea.rows[5].class = "line active"

\* C16: in every reachable state of the View the stored list is empty or
\* sorted by non-decreasing time, whatever messages the Backend has sent.
C16_StoredListSorted ==
    \/ currentLyrics = <<>>
    \/ \A i, j \in 1..Len(currentLyrics) :
         i < j => currentLyrics[i].time <= currentLyrics[j].time

\* A load of several lines at different times, then playback.
C16_Witness ==
    /\ Len(currentLyrics) >= 3
    /\ lastData.kind = "lrc_update"
    /\ lastActiveIndex = 0
    /\ currentLyrics[1].time < currentLyrics[3].time

\* C17: an lrc_update handled while the UI state is loading or no-lyrics
\* changes nothing of the View, and does not fail.
C17_LrcUpdateIgnoredOutsideKaraoke ==
    [][ (lastData'.kind = "lrc_update" /\ uiState \in {"loading", "no-lyrics"})
        => (UNCHANGED viewVars /\ ~lastThrew' /\ ~lastRendered') ]_vars

\* A position arrives in no-lyrics while the list of an earlier load, with
\* a line that was active, is still stored.
C17_Witness ==
    /\ lastData.kind = "lrc_update"
    /\ lastData.hasPosition
    /\ lastData.position >= 1
    /\ uiState = "no-lyrics"
    /\ Len(currentLyrics) = 2
    /\ lastActiveIndex = 0

\* ------------------------------------------ the Controller: expectations

\* C11: two presses of the interactive/locked hotkey with a window bring the
\* Mode Flag and the mouse setting back: along the trail of <<flag, setting>>
\* pairs every pair equals the one two presses before it, and the last pair
\* is the current flag and setting.
C11_TwoPressesRestore ==
    /\ \A i \in 1..Len(modeTrail) : i > 2 => modeTrail[i] = modeTrail[i - 2]
    /\ modeTrail[Len(modeTrail)] = <<isInteractive, ignoreMouseEvents>>

\* Two presses from the locked mode: locked and click-through again.
C11_Witness ==
    /\ mainWindow = "window"
    /\ Len(modeTrail) = 4
    /\ ~isInteractive
    /\ ignoreMouseEvents

\* C15: a press of the visibility hotkey with a window flips the window's
\* visibility and changes nothing else: not the Mode Flag, the mouse
\* setting, the Backend, the buffer, the View, nor any channel to the View.
C15_VisibilityOnly ==
    [][ (keys' = Append(keys, TOGGLE_VISIBLE) /\ mainWindow = "window")
        => /\ visible' = ~visible
           /\ UNCHANGED <<isInteractive, ignoreMouseEvents, shortcuts, pythonProcess,
                          platform, appState, closeApp, allClosed, errorLogged,
                          modeTrail, modeSent, modeChannel, pageLoaded>>
           /\ UNCHANGED <<mainVars, viewVars, bodyVars, lastVars>> ]_vars

\* The window hidden by the hotkey while locked, a song on the page.
C15_Witness ==
    /\ mainWindow = "window"
    /\ ~visible
    /\ keys # <<>>
    /\ keys[Len(keys)] = TOGGLE_VISIBLE
    /\ ~isInteractive
    /\ uiState = "karaoke"

\* C18: every press of the interactive/locked hotkey with a window flips the
\* Mode Flag, makes the window ignore mouse events exactly when the new flag
\* is false, and sends one mode-change with the new flag; and whenever there
\* is a window it ignores mouse events exactly when the flag is false.
C18_ToggleSetsAndNotifies ==
    [][ /\ (keys' = Append(keys, TOGGLE_MODE) /\ mainWindow = "window")
           => /\ isInteractive' = ~isInteractive
              /\ ignoreMouseEvents' = ~isInteractive'
              /\ modeSent' = Append(modeSent, isInteractive')
              /\ modeChannel' = Append(modeChannel, [interactive |-> isInteractive'])
        /\ mainWindow = "window" => (ignoreMouseEvents <=> ~isInteractive)
        /\ mainWindow' = "window" => (ignoreMouseEvents' <=> ~isInteractive') ]_vars

\* Locked by the hotkey, the notification on its way.
C18_Witness ==
    /\ mainWindow = "window"
    /\ keys # <<>>
    /\ keys[Len(keys)] = TOGGLE_MODE
    /\ ~isInteractive
    /\ ignoreMouseEvents
    /\ modeChannel # <<>>
    /\ modeChannel[Len(modeChannel)].interactive = FALSE

\* C20 (as claimed): once did-finish-load has fired and every mode-change
\* has been handled, the View's interactive marker is the Mode Flag.
C20_MarkerFollowsFlag ==
    (mainWindow = "window" /\ pageLoaded /\ modeChannel = <<>>)
    => bodyInteractive = isInteractive

\* C12: once the View has sent the close-application signal, the
\* application quits: the Backend child no longer runs and no global hotkey
\* is registered.
C12_CloseQuits ==
    (closeApp = "sent")
    ~> (appState = "quit" /\ shortcuts = {} /\ pythonProcess # "running")

\* On darwin, where closing the window does not quit: the signal was
\* received and the application has quit, the child killed.
C12_Witness ==
    /\ platform = "darwin"
    /\ closeApp = "received"
    /\ appState = "quit"
    /\ pythonProcess = "killed"
    /\ shortcuts = {}

\* C13: the step that completes the quit unregisters every hotkey and kills
\* a Backend that runs; nothing else kills it or unregisters a hotkey; a
\* window that closes leaves the Backend, the hotkeys and the application
\* state as they were; and the 'window-all-closed' handler starts the quit
\* exactly when the platform is not darwin.
C13_QuitEndsBackend ==
    [][ /\ (appState' = "quit" /\ appState # "quit")
           => /\ shortcuts' = {}
              /\ pythonProcess = "running" => pythonProcess' = "killed"
              /\ pythonProcess # "running" => pythonProcess' = pythonProcess
        /\ pythonProcess' # pythonProcess
           => (pythonProcess' = "killed" /\ appState' = "quit" /\ appState # "quit")
        /\ shortcuts' # shortcuts => (appState' = "quit" /\ appState # "quit")
        /\ (mainWindow = "window" /\ mainWindow' # "window")
           => /\ mainWindow' = "null"
              /\ UNCHANGED <<pythonProcess, shortcuts, appState>>
        /\ (allClosed /\ ~allClosed')
           => appState' = (IF platform # "darwin" /\ appState = "running"
                           THEN "quitting" ELSE appState) ]_vars

\* On darwin the window was closed and 'window-all-closed' handled: the
\* application and the Backend still run.
C13_Witness ==
    /\ platform = "darwin"
    /\ mainWindow = "null"
    /\ ~allClosed
    /\ appState = "running"
    /\ pythonProcess = "running"
    /\ emitted # <<>>
    /\ shortcuts # {}

\* C14: while the Backend is one that could not be spawned no message has
\* reached the View and its UI state is loading; and the step that handles
\* the spawn error changes nothing but the record that it was logged.
C14_SpawnFailureIsQuiet ==
    [][ /\ pythonProcess' = "failed"
           => /\ uiState' = "loading"
              /\ lyricsArea'.ui = "loading"
              /\ received' = <<>>
              /\ forwarded' = <<>>
              /\ handled' = <<>>
              /\ lastChannel' # "lyrics-update"
        /\ errorLogged' # errorLogged
           => /\ errorLogged'
              /\ UNCHANGED <<isInteractive, ignoreMouseEvents, visible, shortcuts,
                             pythonProcess, platform, appState, closeApp, allClosed,
                             keys, modeTrail, modeSent, modeChannel, pageLoaded>>
              /\ UNCHANGED <<mainVars, viewVars, bodyVars, lastVars>> ]_vars

\* The spawn failed and was logged; the application runs on, its page
\* loaded and its hotkeys answering, the View still loading.
C14_Witness ==
    /\ pythonProcess = "failed"
    /\ errorLogged
    /\ appState = "running"
    /\ mainWindow = "window"
    /\ pageLoaded
    /\ Len(keys) >= 2
    /\ bodyInteractive
    /\ uiState = "loading"

\* C19: the UI state is loading until the first message; it changes only in
\* a step that handles a lyrics-update message, never to loading, and to
\* karaoke only by a lyrics_load with a line that is not blank; a mode-change
\* and an lrc_update leave it as it is.
C19_UiStateTransitions ==
    [][ /\ lastChannel = "none" => uiState = "loading"
        /\ uiState' # uiState
           => /\ lastChannel' = "lyrics-update"
              /\ UNCHANGED bodyVars
              /\ uiState' # "loading"
              /\ uiState' = "karaoke"
                 => /\ lastData'.kind = "lyrics_load"
                    /\ \E i \in 1..Len(lastData'.lines) :
                         \E c \in 1..Len(lastData'.lines[i].text) :
                            ~IsWhitespace(lastData'.lines[i].text[c])
        /\ bodyVars' # bodyVars => uiState' = uiState
        /\ (lastData'.kind = "lrc_update" /\ lastData' # lastData)
           => uiState' = uiState ]_vars

\* No-lyrics forced by a status while a list is stored, then playback
\* updates and a mode-change: still no-lyrics.
C19_Witness ==
    /\ uiState = "no-lyrics"
    /\ Len(currentLyrics) > 0
    /\ lastData.kind = "lrc_update"
    /\ lastChannel = "mode-change"
    /\ ~bodyInteractive

\* The bytes received after the last newline byte.
ReceivedTail ==
    LET newlines == NewlinePositions(received)
        last == IF newlines = {} THEN 0
                ELSE CHOOSE i \in newlines : \A j \in newlines : j <= i
    IN  SubSeq(received, last + 1, Len(received))

\* C21: at every moment the number of lines forwarded is at most the number
\* of newlines received; the buffer holds what was received after the last
\* newline (a character cut between its bytes read as cut) and no newline;
\* and once the Backend has exited and its 'close' event was handled nothing
\* more is forwarded and the buffer stays as it is.
C21_ForwardedWithinNewlines ==
    /\ [](/\ Len(forwarded) <= Cardinality(NewlinePositions(received))
          /\ NewlinePositions(buffer) = {}
          /\ CutThrough(buffer) = CutThrough(toString(ReceivedTail)))
    /\ [][pythonProcess = "closed" => UNCHANGED <<forwarded, channel, buffer>>]_vars

\* The Backend wrote two newlines, one of them ending a blank line, and text
\* after the last one, then exited: one line forwarded, the text in the
\* buffer.
C21_Witness ==
    /\ pythonProcess = "closed"
    /\ Cardinality(NewlinePositions(received)) = 2
    /\ Len(forwarded) = 1
    /\ buffer # <<>>
    /\ received = Utf8Encode(emitted)

=============================================================================
